---- MODULE Spec2Model ----
(***************************************************************************)
(* gonka-proxy: a request-signing reverse proxy.                           *)
(*   app/gonka_client.py  GonkaClient: hybrid clock, signer, buffered and  *)
(*                        streamed upstream calls                          *)
(*   app/main.py          settings, lazy client construction, lifespan,    *)
(*                        chat_completions handler                         *)
(*   app/auth.py          verify_api_key                                   *)
(* Byte strings are sequences of atoms (short strings); a JSON document is *)
(* a sequence of lexemes.  Synchronous stretches of a coroutine are one    *)
(* action; every await is a boundary between actions.                      *)
(***************************************************************************)
EXTENDS Integers, Sequences, FiniteSets, TLC

VARIABLES settings, phase, gonka_client, available_models,
          wall, perf, issued, boot, reqs, pools, served, signed

vars == <<settings, phase, gonka_client, available_models,
          wall, perf, issued, boot, reqs, pools, served, signed>>

(***************************************************************************)
(* Bounds of the model.                                                    *)
(***************************************************************************)
\* inbound chat-completions requests in one run
MaxReq == 2
\* largest reading of the monotonic counter
MaxPerf == 1
\* wall clock (ns) when the process boots, and the largest value an operator
\* can set it to afterwards
WallAtBoot == 9
MaxWall == 11
\* most chunks one upstream stream carries
MaxChunks == 2
\* most _hybrid_timestamp_ns calls, and the largest counter reading, in a
\* run of the clock alone
MaxCalls == 3
MaxClockPerf == 2
\* the signer in small: the order of the curve's group, the bytes that encode
\* one scalar, and the values one byte takes (secp256k1: a 256-bit prime, 32
\* bytes, 256 values)
order == 11
ScalarLen == 2
ByteValues == 4
\* largest timestamp the signer is tried on
MaxStamp == 110

(***************************************************************************)
(* Text helpers: str(int), str.startswith, slicing, str.rstrip.            *)
(***************************************************************************)
DigitChars == <<"0", "1", "2", "3", "4", "5", "6", "7", "8", "9">>

RECURSIVE NatStr(_)
NatStr(n) == IF n < 10 THEN <<DigitChars[n + 1]>>
             ELSE NatStr(n \div 10) \o <<DigitChars[(n % 10) + 1]>>

\* str(timestamp_ns): base-10, a leading "-" for negative values
Str(n) == IF n < 0 THEN <<"-">> \o NatStr(0 - n) ELSE NatStr(n)

StartsWith(s, p) == Len(s) >= Len(p) /\ SubSeq(s, 1, Len(p)) = p

Drop(s, k) == SubSeq(s, k + 1, Len(s))

(***************************************************************************)
(* Settings (main.py Settings): the four upstream values and the inbound   *)
(* API key, read once from the environment.  "" is the unset default.      *)
(***************************************************************************)
HexChars == {"0", "1", "2", "3", "4", "5", "6", "7", "8", "9",
             "a", "b", "c", "d", "e", "f", "A", "B", "C", "D", "E", "F"}

\* hex digits of a secp256k1 secret scalar (32 bytes)
KeyHexLen == 64

KeyGood == [i \in 1..KeyHexLen |-> IF i = KeyHexLen THEN "1" ELSE "a"]
KeyPrefixed == <<"0", "x">> \o KeyGood
KeyNonHex == <<"z", "z">>
KeyShort == <<"a", "b", "c", "d">>

PrivateKeys == {<<>>, KeyPrefixed, KeyNonHex, KeyShort}
Addresses == {<<>>, <<"g", "1">>}
Endpoints == {<<>>, <<"h", "/">>}
ProviderAddresses == {<<>>, <<"p", "1">>}
ApiKeys == {<<>>, <<"s", "k">>}

SettingsSet == [gonka_private_key : PrivateKeys,
                gonka_address : Addresses,
                gonka_endpoint : Endpoints,
                gonka_provider_address : ProviderAddresses,
                api_key : ApiKeys]

\* Python truthiness of a str
StrTruthy(s) == Len(s) > 0

RECURSIVE RStrip(_, _)
RStrip(s, ch) == IF Len(s) > 0 /\ s[Len(s)] = ch
                 THEN RStrip(SubSeq(s, 1, Len(s) - 1), ch)
                 ELSE s

(***************************************************************************)
(* JSON.  A value is [t, v, key, member]: t its type, v its lexeme (for an *)
(* array, the lexeme of its only element, "" when empty); an object has at *)
(* most one member, key : member[1].                                       *)
(***************************************************************************)
Scalar(t, v) == [t |-> t, v |-> v, key |-> "", member |-> <<>>]

Array(v) == [t |-> "arr", v |-> v, key |-> "", member |-> <<>>]

Object(k, m) == [t |-> "obj", v |-> "", key |-> k, member |-> <<m>>]

EmptyObject == [t |-> "obj", v |-> "", key |-> "", member |-> <<>>]

NoValue == [t |-> "none", v |-> "", key |-> "", member |-> <<>>]

\* Python's False, the default of body.get("stream", False)
PyFalse == Scalar("bool", "false")

\* json.dumps of a value that is not an object
DumpsFlat(x) ==
    CASE x.t = "str" -> IF x.v = "" THEN <<"\"", "\"">> ELSE <<"\"", x.v, "\"">>
      [] x.t = "arr" -> IF x.v = "" THEN <<"[", "]">> ELSE <<"[", x.v, "]">>
      [] OTHER -> <<x.v>>

\* json.dumps(payload): default separators ", " and ": "
Dumps(x) ==
    IF x.t = "obj"
    THEN IF x.member = <<>> THEN <<"{", "}">>
         ELSE <<"{", "\"", x.key, "\"", ": ">> \o DumpsFlat(x.member[1]) \o <<"}">>
    ELSE DumpsFlat(x)

Punctuation == {"\"", "{", "}", "[", "]", ":", ": ", ","}

\* an object inside an array, written as one lexeme: a model entry with an id,
\* and an entry without one
ModelObject == "{\"id\": \"m\"}"
BareObject == "{}"

ArrayElements == {"0", "1", ModelObject, BareObject}

\* one value that is not an object, or NoValue
LoadsFlat(raw) ==
    CASE Len(raw) = 1 /\ raw[1] \in {"true", "false"} -> Scalar("bool", raw[1])
      [] Len(raw) = 1 /\ raw[1] = "null" -> Scalar("null", "null")
      [] Len(raw) = 1 /\ raw[1] \in {"0", "1"} -> Scalar("num", raw[1])
      [] Len(raw) = 2 /\ raw = <<"\"", "\"">> -> Scalar("str", "")
      [] Len(raw) = 3 /\ raw[1] = "\"" /\ raw[3] = "\"" /\ raw[2] \notin Punctuation
           -> Scalar("str", raw[2])
      [] Len(raw) = 2 /\ raw = <<"[", "]">> -> Array("")
      [] Len(raw) = 3 /\ raw[1] = "[" /\ raw[3] = "]" /\ raw[2] \in ArrayElements
           -> Array(raw[2])
      [] OTHER -> NoValue

\* json.loads of a body: [ok, value].  Accepts ":" with or without the
\* space json.dumps writes; anything outside the grammar is a decode error.
Loads(raw) ==
    LET n == Len(raw)
        val == IF n >= 2 /\ raw[1] = "{" /\ raw[n] = "}"
               THEN IF n = 2 THEN EmptyObject
                    ELSE IF n >= 7 /\ raw[2] = "\"" /\ raw[3] \notin Punctuation
                                   /\ raw[4] = "\"" /\ raw[5] \in {":", ": "}
                                   /\ LoadsFlat(SubSeq(raw, 6, n - 1)) # NoValue
                         THEN Object(raw[3], LoadsFlat(SubSeq(raw, 6, n - 1)))
                         ELSE NoValue
               ELSE LoadsFlat(raw)
    IN  [ok |-> val # NoValue, value |-> val]

\* dict.get(key, default)
Get(x, k, default) == IF x.member # <<>> /\ x.key = k THEN x.member[1] ELSE default

\* Python truthiness of a JSON value
Truthy(x) ==
    CASE x.t = "bool" -> x.v = "true"
      [] x.t = "num" -> x.v # "0"
      [] x.t = "str" -> x.v # ""
      [] x.t = "arr" -> x.v # ""
      [] x.t = "obj" -> x.member # <<>>
      [] OTHER -> FALSE

(***************************************************************************)
(* app/auth.py                                                             *)
(***************************************************************************)
UpperLetters == <<"A", "B", "C", "D", "E", "F", "G", "H", "I", "J", "K", "L", "M",
                  "N", "O", "P", "Q", "R", "S", "T", "U", "V", "W", "X", "Y", "Z">>
LowerLetters == <<"a", "b", "c", "d", "e", "f", "g", "h", "i", "j", "k", "l", "m",
                  "n", "o", "p", "q", "r", "s", "t", "u", "v", "w", "x", "y", "z">>

LowerChar(c) == IF \E i \in 1..Len(UpperLetters) : UpperLetters[i] = c
                THEN LowerLetters[CHOOSE i \in 1..Len(UpperLetters) : UpperLetters[i] = c]
                ELSE c

Lower(s) == [i \in 1..Len(s) |-> LowerChar(s[i])]

\* index of the first ch in s, 0 when there is none
IndexOf(s, ch) == IF \E i \in 1..Len(s) : s[i] = ch
                  THEN CHOOSE i \in 1..Len(s) : s[i] = ch /\ \A j \in 1..(i - 1) : s[j] # ch
                  ELSE 0

BearerPrefix == <<"B", "e", "a", "r", "e", "r", " ">>

\* a mutant of HTTPBearer that takes the scheme as written, "Bearer" alone
HTTPBearerExact(header) ==
    LET i == IndexOf(header, " ")
        scheme == IF i = 0 THEN header ELSE SubSeq(header, 1, i - 1)
        param == IF i = 0 THEN <<>> ELSE Drop(header, i)
    IN  IF StrTruthy(header) /\ StrTruthy(scheme) /\ StrTruthy(param)
           /\ scheme = <<"B", "e", "a", "r", "e", "r">>
        THEN param ELSE <<>>

\* HTTPBearer(auto_error=False): the credentials of "<scheme> <param>" when
\* the scheme is bearer (any case) and the param is not empty, else <<>>
HTTPBearer(header) ==
    LET i == IndexOf(header, " ")
        scheme == IF i = 0 THEN header ELSE SubSeq(header, 1, i - 1)
        param == IF i = 0 THEN <<>> ELSE Drop(header, i)
    IN  IF StrTruthy(header) /\ StrTruthy(scheme) /\ StrTruthy(param)
           /\ Lower(scheme) = <<"b", "e", "a", "r", "e", "r">>
        THEN param ELSE <<>>

\* verify_api_key: the HTTP status it raises, 200 when it returns True
verify_api_key(api_key, header) ==
    LET credentials == HTTPBearer(header)
        token == IF StrTruthy(credentials) THEN credentials
                 ELSE IF StrTruthy(header)
                      THEN IF StartsWith(header, BearerPrefix)
                           THEN Drop(header, Len(BearerPrefix))
                           ELSE header
                      ELSE <<>>
    IN  IF ~StrTruthy(api_key) THEN [status |-> 500, detail |-> "API key not configured on server"]
        ELSE IF ~StrTruthy(token) THEN [status |-> 401, detail |-> "Missing API key"]
        ELSE IF token # api_key THEN [status |-> 401, detail |-> "Invalid API key"]
        ELSE [status |-> 200, detail |-> ""]

(***************************************************************************)
(* app/gonka_client.py: construction, clock, signer, request preparation.  *)
(***************************************************************************)
NoClient == [open |-> FALSE, made |-> FALSE]

\* GonkaClient.__init__: stores the four values as given (the endpoint
\* without trailing "/"), anchors the clock, opens the connection pool.
\* pools counts, for every httpx.AsyncClient ever constructed, the calls of
\* its aclose(); pool is the place of this client's own.
GonkaClient(private_key, address, endpoint, provider_address) ==
    [made |-> TRUE,
     pool |-> Len(pools) + 1,
     private_key |-> private_key,
     address |-> address,
     endpoint |-> RStrip(endpoint, "/"),
     provider_address |-> provider_address,
     wall_base |-> wall,
     perf_base |-> perf,
     open |-> TRUE]

\* a mutant of _hybrid_timestamp_ns that re-reads the wall clock on every call
hybrid_timestamp_wall(c) == wall + (perf - c.perf_base)

\* _hybrid_timestamp_ns
hybrid_timestamp_ns(c) == c.wall_base + (perf - c.perf_base)

\* what _sign_payload does with the key: drop "0x", bytes.fromhex (hex digits,
\* an even number of them), SigningKey.from_string (32 bytes, a scalar >= 1)
KeyHex(private_key) ==
    IF StartsWith(private_key, <<"0", "x">>) THEN Drop(private_key, 2) ELSE private_key

KeyParses(private_key) ==
    LET pk == KeyHex(private_key)
    IN  /\ \A i \in 1..Len(pk) : pk[i] \in HexChars
        /\ Len(pk) % 2 = 0
        /\ Len(pk) = KeyHexLen
        /\ ~(\A i \in 1..Len(pk) : pk[i] = "0")

\* a mutant of the message that leaves the timestamp out
SignedMessageUnstamped(payload_bytes, timestamp_ns, provider_address) ==
    payload_bytes \o provider_address

\* the message _sign_payload signs: payload || str(timestamp) || provider
SignedMessage(payload_bytes, timestamp_ns, provider_address) ==
    payload_bytes \o Str(timestamp_ns) \o provider_address

\* _sign_payload: raises ValueError on a key that does not parse; the
\* signature is a deterministic function of the key and the message
sign_payload(c, payload_bytes, timestamp_ns, provider_address) ==
    IF ~KeyParses(c.private_key)
    THEN [ok |-> FALSE, exc |-> "ValueError", key |-> <<>>, msg |-> <<>>]
    ELSE [ok |-> TRUE, exc |-> "", key |-> KeyHex(c.private_key),
          msg |-> SignedMessage(payload_bytes, timestamp_ns, provider_address)]

(***************************************************************************)
(* _sign_payload after the signer returns: the signature is r || s, each   *)
(* scalar big-endian in ScalarLen bytes.                                   *)
(***************************************************************************)
\* int.to_bytes(length, 'big')
RECURSIVE ToBytes(_, _)
ToBytes(n, length) ==
    IF length = 0 THEN <<>>
    ELSE ToBytes(n \div ByteValues, length - 1) \o <<n % ByteValues>>

\* int.from_bytes(b, 'big')
RECURSIVE FromBytes(_)
FromBytes(b) ==
    IF Len(b) = 0 THEN 0
    ELSE FromBytes(SubSeq(b, 1, Len(b) - 1)) * ByteValues + b[Len(b)]

\* what sk.sign_deterministic returns for the pair (r, s) it computed
SignDeterministic(r, s) == ToBytes(r, ScalarLen) \o ToBytes(s, ScalarLen)

\* a mutant of the normalisation that also flips s = order // 2
LowSInclusive(sig) ==
    LET r == SubSeq(sig, 1, ScalarLen)
        s == SubSeq(sig, ScalarLen + 1, Len(sig))
        s_int == FromBytes(s)
    IN  IF s_int >= order \div 2 THEN r \o ToBytes(order - s_int, ScalarLen) ELSE r \o s

\* r, s = sig[:32], sig[32:]; if s_int > order // 2: s = order - s_int;
\* the result is r + s, the bytes handed to base64.b64encode
LowS(sig) ==
    LET r == SubSeq(sig, 1, ScalarLen)
        s == SubSeq(sig, ScalarLen + 1, Len(sig))
        s_int == FromBytes(s)
    IN  IF s_int > order \div 2 THEN r \o ToBytes(order - s_int, ScalarLen) ELSE r \o s

NoSignature == [r |-> 0, s |-> 0, sig |-> <<>>, out |-> <<>>]

NoHeaders == [ContentType |-> "", Authorization |-> [ok |-> FALSE],
              XRequesterAddress |-> <<>>, XTimestamp |-> <<>>]

\* a mutant of _prepare_request that reads the clock again for the header
prepare_request_reread(c, payload) ==
    LET body == IF payload.t = "null" THEN EmptyObject ELSE payload
        payload_bytes == Dumps(body)
        timestamp_ns == hybrid_timestamp_ns(c)
        signature == sign_payload(c, payload_bytes, timestamp_ns, c.provider_address)
    IN  [ok |-> signature.ok, exc |-> signature.exc,
         payload_bytes |-> payload_bytes,
         headers |-> [ContentType |-> "application/json",
                      Authorization |-> signature,
                      XRequesterAddress |-> c.address,
                      XTimestamp |-> Str(hybrid_timestamp_ns(c))],
         timestamp_ns |-> timestamp_ns,
         reads |-> <<timestamp_ns, hybrid_timestamp_ns(c)>>]

\* _prepare_request: (payload_bytes, headers), or the exception of the
\* signer.  reads lists the clock readings taken, timestamp_ns is the local
\* variable handed to the signer.
prepare_request(c, payload) ==
    LET body == IF payload.t = "null" THEN EmptyObject ELSE payload
        payload_bytes == Dumps(body)
        timestamp_ns == hybrid_timestamp_ns(c)
        signature == sign_payload(c, payload_bytes, timestamp_ns, c.provider_address)
    IN  [ok |-> signature.ok, exc |-> signature.exc,
         payload_bytes |-> payload_bytes,
         headers |-> IF signature.ok
                     THEN [ContentType |-> "application/json",
                           Authorization |-> signature,
                           XRequesterAddress |-> c.address,
                           XTimestamp |-> Str(timestamp_ns)]
                     ELSE NoHeaders,
         timestamp_ns |-> timestamp_ns,
         reads |-> <<timestamp_ns>>]

NoCall == [sent |-> FALSE]

\* a mutant of the exchange that sends the payload serialised anew, with
\* the separators "," and ":" a client serialising it itself would write
ExchangeReserialized(c, method, path, prepared, streamed) ==
    [sent |-> TRUE,
     method |-> method,
     url |-> c.endpoint \o path,
     headers |-> prepared.headers,
     content |-> LET x == Loads(prepared.payload_bytes).value
                 IN  IF x.t = "obj" /\ x.member # <<>>
                     THEN <<"{", "\"", x.key, "\"", ":">> \o DumpsFlat(x.member[1]) \o <<"}">>
                     ELSE Dumps(x),
     timestamp_ns |-> prepared.timestamp_ns,
     reads |-> Len(prepared.reads),
     streamed |-> streamed]

\* the exchange request / request_stream hand to the connection pool
Exchange(c, method, path, prepared, streamed) ==
    [sent |-> TRUE,
     method |-> method,
     url |-> c.endpoint \o path,
     headers |-> prepared.headers,
     content |-> prepared.payload_bytes,
     timestamp_ns |-> prepared.timestamp_ns,
     reads |-> Len(prepared.reads),
     streamed |-> streamed]

ChatPath == <<"/", "chat", "/", "completions">>
ModelsPath == <<"/", "models">>

(***************************************************************************)
(* What the upstream can answer.                                           *)
(***************************************************************************)
Statuses == {200, 204, 302, 404, 500}

Outcome(kind, status, body) == [kind |-> kind, status |-> status, body |-> body]

\* a complete response, or a failure of the transport (connect error, reset,
\* the configured timeout)
BufferedOutcomes == {Outcome("response", 200, <<"{", "}">>),
                     Outcome("response", 200,
                             <<"{", "\"", "models", "\"", ": ", "[", "1", "]", "}">>),
                     Outcome("response", 200, <<"<html>">>),
                     Outcome("response", 204, <<>>),
                     Outcome("response", 302, <<>>),
                     Outcome("response", 302, <<"{", "}">>),
                     Outcome("response", 404, <<"{", "}">>),
                     Outcome("response", 500, <<"<html>">>),
                     Outcome("transport", 0, <<>>),
                     Outcome("timeout", 0, <<>>)}

\* the head of a streamed response, or a failure before it arrives
StreamOutcomes == {Outcome("response", s, <<>>) : s \in Statuses}
                  \cup {Outcome("transport", 0, <<>>)}

\* answers to the startup GET /models: those above, and 2xx replies whose JSON
\* is not an object or whose models member is not a list
ModelsOutcomes ==
    BufferedOutcomes
    \cup {Outcome("response", 200, <<"{", "\"", "models", "\"", ": ", "[", ModelObject, "]", "}">>),
          Outcome("response", 200, <<"{", "\"", "models", "\"", ": ", "[", BareObject, "]", "}">>),
          Outcome("response", 200, <<"{", "\"", "models", "\"", ": ", "null", "}">>),
          Outcome("response", 200, <<"{", "\"", "models", "\"", ": ", "\"", "x", "\"", "}">>),
          Outcome("response", 200, <<"[", "1", "]">>),
          Outcome("response", 200, <<"null">>)}

Chunks == {"c1", "c2"}

\* httpx Response.is_success
IsSuccess(status) == 200 <= status /\ status <= 299

\* a mutant of raise_for_status that raises on 4xx and 5xx alone
RaisesForClientOrServerError(status) == status >= 400

\* Response.raise_for_status() raises HTTPStatusError unless is_success
RaisesForStatus(status) == ~IsSuccess(status)

NoReply == [kind |-> "none"]

(***************************************************************************)
(* app/main.py: lazy client construction and the configuration error.      *)
(***************************************************************************)
ConfigComplete(s) ==
    /\ StrTruthy(s.gonka_private_key)
    /\ StrTruthy(s.gonka_address)
    /\ StrTruthy(s.gonka_endpoint)
    /\ StrTruthy(s.gonka_provider_address)

\* a mutant of _create_gonka_client without the `is None` test
create_gonka_client_anew ==
    IF ~ConfigComplete(settings) THEN NoClient
    ELSE GonkaClient(settings.gonka_private_key, settings.gonka_address,
                     settings.gonka_endpoint, settings.gonka_provider_address)

\* _create_gonka_client: the global client, created on first use when the
\* configuration is complete; NoClient (None) otherwise
create_gonka_client ==
    IF ~gonka_client.made
    THEN IF ~ConfigComplete(settings) THEN NoClient
         ELSE GonkaClient(settings.gonka_private_key, settings.gonka_address,
                          settings.gonka_endpoint, settings.gonka_provider_address)
    ELSE gonka_client

\* the pools once `client` is what _create_gonka_client returned: one more
\* when the constructor ran
PoolsWith(client) ==
    IF client.made /\ client.pool > Len(pools) THEN Append(pools, 0) ELSE pools

SettingNames == {"GONKA_PRIVATE_KEY", "GONKA_ADDRESS", "GONKA_ENDPOINT",
                 "GONKA_PROVIDER_ADDRESS"}

\* a mutant of the list that never reports the endpoint
MissingWithoutEndpoint(s) ==
    (IF ~StrTruthy(s.gonka_private_key) THEN <<<<"GONKA_PRIVATE_KEY">>>> ELSE <<>>)
    \o (IF ~StrTruthy(s.gonka_address) THEN <<<<"GONKA_ADDRESS">>>> ELSE <<>>)
    \o (IF ~StrTruthy(s.gonka_provider_address)
        THEN <<<<"GONKA_PROVIDER_ADDRESS",
                 " (provider address in bech32 format, get it from the Gonka provider)">>>>
        ELSE <<>>)

\* the list get_gonka_client builds, one entry per unset value, in order
Missing(s) ==
    (IF ~StrTruthy(s.gonka_private_key) THEN <<<<"GONKA_PRIVATE_KEY">>>> ELSE <<>>)
    \o (IF ~StrTruthy(s.gonka_address) THEN <<<<"GONKA_ADDRESS">>>> ELSE <<>>)
    \o (IF ~StrTruthy(s.gonka_endpoint) THEN <<<<"GONKA_ENDPOINT">>>> ELSE <<>>)
    \o (IF ~StrTruthy(s.gonka_provider_address)
        THEN <<<<"GONKA_PROVIDER_ADDRESS",
                 " (provider address in bech32 format, get it from the Gonka provider)">>>>
        ELSE <<>>)

\* ', '.join(missing)
RECURSIVE Join(_)
Join(parts) == IF Len(parts) = 0 THEN <<>>
               ELSE IF Len(parts) = 1 THEN parts[1]
               ELSE parts[1] \o <<", ">> \o Join(Tail(parts))

\* the detail of the HTTPException get_gonka_client raises
ConfigDetail(s) ==
    <<"Gonka configuration incomplete. Missing: ">> \o Join(Missing(s)) \o <<". ">>
    \o <<"GONKA_PROVIDER_ADDRESS", " is the Gonka provider address (bech32 format), ",
         "which can be obtained from the provider or in Gonka documentation.">>

(***************************************************************************)
(* What a caller of the proxy sees.                                        *)
(***************************************************************************)
Result(status, kind, body, detail) ==
    [status |-> status, kind |-> kind, body |-> body, detail |-> detail]

NoResult == Result(0, "none", NoValue, <<>>)

NoHead == [status |-> 0, media_type |-> "", cache_control |-> "", accel_buffering |-> ""]

\* StreamingResponse(generate(), media_type=..., headers=...): status 200
StreamingHead == [status |-> 200, media_type |-> "text/event-stream",
                  cache_control |-> "no-cache", accel_buffering |-> "no"]

\* the exception client.request raises for an outcome, "" when it returns
RequestException(outcome) ==
    CASE outcome.kind = "transport" -> "ConnectError"
      [] outcome.kind = "timeout" -> "ReadTimeout"
      [] outcome.kind = "response" /\ RaisesForStatus(outcome.status) -> "HTTPStatusError"
      [] outcome.kind = "response" /\ ~Loads(outcome.body).ok -> "JSONDecodeError"
      [] OTHER -> ""

\* client.request after the exchange: response.raise_for_status(), then
\* response.json()
RequestReturn(outcome) ==
    [ok |-> RequestException(outcome) = "",
     exc |-> RequestException(outcome),
     value |-> IF RequestException(outcome) = "" THEN Loads(outcome.body).value ELSE NoValue]

\* the except clause of chat_completions
InternalError(exc) == Result(500, "internal", NoValue, <<"Internal server error: ", exc>>)

\* the buffered branch of chat_completions once the exchange is over
BufferedResult(outcome) ==
    IF RequestReturn(outcome).ok
    THEN Result(200, "json", RequestReturn(outcome).value, <<>>)
    ELSE InternalError(RequestReturn(outcome).exc)

\* what a read-only handler last answered, and on which path
Served(path, result) == [path |-> path, result |-> result]

NoServed == Served("", NoResult)

\* get_models_no_auth: {"models": available_models}
get_models_no_auth(models) == Result(200, "json", Object("models", models), <<>>)

\* the loop of list_models: model.get("id", "unknown") for each element of
\* the cache.  Iterating a str gives its characters, a dict its keys, and
\* neither those nor a number has get.
ModelIds(models) ==
    CASE models.t = "arr" /\ models.v = "" -> [ok |-> TRUE, ids |-> <<>>]
      [] models.t = "arr" /\ models.v = ModelObject -> [ok |-> TRUE, ids |-> <<"m">>]
      [] models.t = "arr" /\ models.v = BareObject -> [ok |-> TRUE, ids |-> <<"unknown">>]
      [] models.t = "str" /\ models.v = "" -> [ok |-> TRUE, ids |-> <<>>]
      [] models.t = "obj" /\ models.member = <<>> -> [ok |-> TRUE, ids |-> <<>>]
      [] OTHER -> [ok |-> FALSE, ids |-> <<>>]

\* the "data" list of ids list_models returns
ModelList(ids) == [t |-> "list", v |-> "", key |-> "", member |-> ids]

\* list_models behind verify_api_key: the ids of the cache, or the default
\* entry when there are none
list_models(api_key, header, models) ==
    LET auth == verify_api_key(api_key, header)
        listed == ModelIds(models)
    IN  IF auth.status # 200 THEN Result(auth.status, "auth", NoValue, <<auth.detail>>)
        ELSE IF ~listed.ok THEN Result(500, "unhandled", NoValue, <<"AttributeError">>)
        ELSE Result(200, "json",
                    Object("data", ModelList(IF listed.ids = <<>> THEN <<"gonka-model">>
                                             ELSE listed.ids)),
                    <<>>)

\* stream = body.get("stream", False); if stream:
StreamSelected(body) == Truthy(Get(body, "stream", PyFalse))

\* request_stream: if response.status_code >= 400
StreamHeadIsError(status) == status >= 400

(***************************************************************************)
(* State.                                                                  *)
(***************************************************************************)
Req == 1..MaxReq

\* emitted: the chunks aiter_bytes has returned; relayed: the chunks sent on
\* to the caller; conn: the upstream streaming response ("none" before
\* `async with client.stream(...)` is entered, "open" inside it, "released"
\* once it is left); dropped: the caller has disconnected
IdleRequest == [pc |-> "idle", header |-> <<>>, raw |-> <<>>, call |-> NoCall, reply |-> NoReply,
                result |-> NoResult, head |-> NoHead,
                emitted |-> <<>>, relayed |-> <<>>, logged |-> <<>>,
                conn |-> "none", dropped |-> FALSE]

RawBodies == {Dumps(EmptyObject)}
             \cup {Dumps(Object("stream", x)) : x \in
                     {Scalar("bool", "true"), Scalar("bool", "false"), Scalar("num", "1"),
                      Scalar("num", "0"), Scalar("str", "false"), Scalar("str", ""),
                      Scalar("null", "null"), Array(""), Array("0")}}
             \cup {<<"{", "\"", "stream", "\"", ":", "true", "}">>,
                   Dumps(Object("model", Scalar("str", "x"))),
                   <<"[", "1", "]">>, <<"\"", "x", "\"">>, <<"1">>, <<"null">>,
                   <<"{", "\"", "stream", "\"">>, <<>>}

Headers == {<<>>, <<"s", "k">>, <<"B", "e", "a", "r", "e", "r", " ", "s", "k">>,
            <<"n", "o">>, <<"B", "e", "a", "r", "e", "r", " ", "n", "o">>}

\* the process right after the module is imported, its settings one of S
Imported(S) ==
    /\ settings \in S
    /\ phase = "boot"
    /\ gonka_client = NoClient
    /\ available_models = Array("")
    /\ wall = WallAtBoot
    /\ perf = 0
    /\ issued = <<>>
    /\ boot = [pc |-> "init", call |-> NoCall]
    /\ reqs = [r \in Req |-> IdleRequest]
    /\ pools = <<>>
    /\ served = NoServed
    /\ signed = NoSignature

Init == Imported(SettingsSet)

(***************************************************************************)
(* Clocks.                                                                 *)
(***************************************************************************)
\* time passes: the monotonic counter advances
Tick(limit) ==
    /\ perf < limit
    /\ perf' = perf + 1
    /\ UNCHANGED <<settings, phase, gonka_client, available_models, wall, issued, boot, reqs, pools, served, signed>>

\* an operator sets the wall clock, forward or backward
WallAdjust(w) ==
    /\ w # wall
    /\ wall' = w
    /\ UNCHANGED <<settings, phase, gonka_client, available_models, perf, issued, boot, reqs, pools, served, signed>>

\* one more call of _hybrid_timestamp_ns on the client
ClockRead ==
    /\ gonka_client.made
    /\ Len(issued) < MaxCalls
    /\ issued' = Append(issued, hybrid_timestamp_ns(gonka_client))
    /\ UNCHANGED <<settings, phase, gonka_client, available_models, wall, perf, boot, reqs, pools, served, signed>>

(***************************************************************************)
(* The signer's arithmetic: one call of _sign_payload in which the signer  *)
(* computed the scalars r and s.                                           *)
(***************************************************************************)
SignPayload(r, s) ==
    /\ gonka_client.made
    /\ KeyParses(gonka_client.private_key)
    /\ signed' = [r |-> r, s |-> s, sig |-> SignDeterministic(r, s),
                  out |-> LowS(SignDeterministic(r, s))]
    /\ UNCHANGED <<settings, phase, gonka_client, available_models, wall, perf, issued, boot,
                   reqs, pools, served>>

(***************************************************************************)
(* lifespan: startup, the models fetch, shutdown.                          *)
(***************************************************************************)
\* lifespan up to the await inside get_models (or to the yield when there
\* is no client or _prepare_request raises, which get_models catches)
LifespanStartup ==
    /\ phase = "boot"
    /\ boot.pc = "init"
    /\ LET client == create_gonka_client
           prepared == prepare_request(client, EmptyObject)
       IN  /\ gonka_client' = client
           /\ pools' = PoolsWith(client)
           /\ IF client.made /\ prepared.ok
              THEN /\ boot' = [boot EXCEPT !.pc = "awaiting",
                                           !.call = Exchange(client, "GET", ModelsPath,
                                                             prepared, FALSE)]
                   /\ issued' = issued \o prepared.reads
                   /\ UNCHANGED <<phase, available_models>>
              ELSE /\ boot' = [boot EXCEPT !.pc = "done"]
                   /\ issued' = IF client.made THEN issued \o prepared.reads ELSE issued
                   /\ available_models' = Array("")
                   /\ phase' = "serving"
    /\ UNCHANGED <<settings, wall, perf, reqs, served, signed>>

\* len(models) raises TypeError on None, a number, a bool
HasLen(x) == x.t \in {"str", "arr", "obj"}

\* get_models after the exchange: models = response.get("models", []), then
\* len(models), all inside the try; any exception gives []
ModelsOf(outcome) ==
    LET ret == RequestReturn(outcome)
        models == Get(ret.value, "models", Array(""))
    IN  IF ret.ok /\ ret.value.t = "obj" /\ HasLen(models) THEN models ELSE Array("")

\* the models exchange ends; lifespan stores the list and yields
LifespanModels(outcome) ==
    /\ phase = "boot"
    /\ boot.pc = "awaiting"
    /\ boot' = [boot EXCEPT !.pc = "done"]
    /\ available_models' = ModelsOf(outcome)
    /\ phase' = "serving"
    /\ UNCHANGED <<settings, gonka_client, wall, perf, issued, reqs, pools, served, signed>>

\* lifespan after the yield: if gonka_client: await gonka_client.close()
LifespanShutdown ==
    /\ phase = "serving"
    /\ \A r \in Req : reqs[r].pc \in {"idle", "done"}
    /\ phase' = "stopped"
    /\ gonka_client' = IF gonka_client.made THEN [gonka_client EXCEPT !.open = FALSE]
                       ELSE gonka_client
    /\ pools' = IF gonka_client.made THEN [pools EXCEPT ![gonka_client.pool] = @ + 1]
                ELSE pools
    /\ UNCHANGED <<settings, available_models, wall, perf, issued, boot, reqs, served, signed>>

(***************************************************************************)
(* GET /api/models and GET /v1/models: no await inside, one step each.     *)
(***************************************************************************)
GetModelsNoAuth ==
    /\ phase = "serving"
    /\ served' = Served("/api/models", get_models_no_auth(available_models))
    /\ UNCHANGED <<settings, phase, gonka_client, available_models, wall, perf, issued, boot,
                   reqs, pools, signed>>

\* a mutant of list_models that stores its default entry in the cache
ListModelsStoresDefault(header) ==
    /\ phase = "serving"
    /\ served' = Served("/v1/models", list_models(settings.api_key, header, available_models))
    /\ available_models' = IF ModelIds(available_models).ids = <<>> THEN Array(BareObject)
                           ELSE available_models
    /\ UNCHANGED <<settings, phase, gonka_client, wall, perf, issued, boot,
                   reqs, pools, signed>>

ListModels(header) ==
    /\ phase = "serving"
    /\ served' = Served("/v1/models", list_models(settings.api_key, header, available_models))
    /\ UNCHANGED <<settings, phase, gonka_client, available_models, wall, perf, issued, boot,
                   reqs, pools, signed>>

(***************************************************************************)
(* POST /v1/chat/completions.                                              *)
(***************************************************************************)
Finish(q, r, result) == [q EXCEPT ![r].pc = "done", ![r].result = result]

\* a mutant of the route without Depends(verify_api_key)
ChatReceiveUnchecked(r, header) ==
    /\ phase = "serving"
    /\ reqs[r].pc = "idle"
    /\ \A q \in Req : q < r => reqs[q].pc # "idle"
    /\ LET client == create_gonka_client
           received == [reqs EXCEPT ![r].header = header]
       IN  /\ gonka_client' = client
           /\ pools' = PoolsWith(client)
           /\ IF ~client.made
              THEN reqs' = Finish(received, r,
                                  Result(500, "config", NoValue, ConfigDetail(settings)))
              ELSE reqs' = [received EXCEPT ![r].pc = "body"]
    /\ UNCHANGED <<settings, phase, available_models, wall, perf, issued, boot, served, signed>>

\* the request arrives: verify_api_key, then get_gonka_client, up to the
\* await of request.json()
ChatReceive(r, header) ==
    /\ phase = "serving"
    /\ reqs[r].pc = "idle"
    /\ \A q \in Req : q < r => reqs[q].pc # "idle"
    /\ LET auth == verify_api_key(settings.api_key, header)
           client == create_gonka_client
           received == [reqs EXCEPT ![r].header = header]
       IN  IF auth.status # 200
           THEN /\ reqs' = Finish(received, r, Result(auth.status, "auth", NoValue, <<auth.detail>>))
                /\ UNCHANGED <<gonka_client, pools>>
           ELSE /\ gonka_client' = client
                /\ pools' = PoolsWith(client)
                /\ IF ~client.made
                   THEN reqs' = Finish(received, r,
                                       Result(500, "config", NoValue, ConfigDetail(settings)))
                   ELSE reqs' = [received EXCEPT ![r].pc = "body"]
    /\ UNCHANGED <<settings, phase, available_models, wall, perf, issued, boot, served, signed>>

\* request.json() returns or raises; stream = body.get("stream", False);
\* then either StreamingResponse is returned and its head goes out, or
\* client.request runs up to its await
ChatBody(r, raw) ==
    /\ reqs[r].pc = "body"
    /\ LET parsed == Loads(raw)
           body == parsed.value
           prepared == prepare_request(gonka_client, body)
           read == [reqs EXCEPT ![r].raw = raw]
       IN  IF ~parsed.ok
           THEN /\ reqs' = Finish(read, r, Result(400, "bad_request", NoValue,
                                                  <<"Invalid JSON: ", "JSONDecodeError">>))
                /\ UNCHANGED issued
           ELSE IF body.t # "obj"
           THEN /\ reqs' = Finish(read, r, Result(500, "unhandled", NoValue, <<"AttributeError">>))
                /\ UNCHANGED issued
           ELSE IF StreamSelected(body)
           THEN /\ reqs' = [read EXCEPT ![r].pc = "started", ![r].head = StreamingHead]
                /\ UNCHANGED issued
           ELSE /\ issued' = issued \o prepared.reads
                /\ IF prepared.ok
                   THEN reqs' = [read EXCEPT ![r].pc = "upstream",
                                             ![r].call = Exchange(gonka_client, "POST", ChatPath,
                                                                  prepared, FALSE)]
                   ELSE reqs' = Finish(read, r, InternalError(prepared.exc))
    /\ UNCHANGED <<settings, phase, gonka_client, available_models, wall, perf, boot, pools, served, signed>>

\* the buffered exchange ends: the JSON body is returned, or the exception
\* becomes HTTPException(500)
ChatReply(r, outcome) ==
    /\ reqs[r].pc = "upstream"
    /\ reqs' = Finish([reqs EXCEPT ![r].reply = outcome], r, BufferedResult(outcome))
    /\ UNCHANGED <<settings, phase, gonka_client, available_models, wall, perf, issued, boot, pools, served, signed>>

\* the response's body iterator is first pulled: generate() enters
\* request_stream, which prepares the request and opens the stream
StreamOpen(r) ==
    /\ reqs[r].pc = "started"
    /\ LET prepared == prepare_request(gonka_client, Loads(reqs[r].raw).value)
       IN  /\ issued' = issued \o prepared.reads
           /\ IF prepared.ok
              THEN reqs' = [reqs EXCEPT ![r].pc = "opening",
                                        ![r].call = Exchange(gonka_client, "POST", ChatPath,
                                                             prepared, TRUE)]
              ELSE reqs' = [reqs EXCEPT ![r].pc = "done",
                                        ![r].logged = <<"Streaming error: ", prepared.exc>>]
    /\ UNCHANGED <<settings, phase, gonka_client, available_models, wall, perf, boot, pools, served, signed>>

\* the head of the upstream response arrives and the `async with` block is
\* entered, or the transport fails first; on a status >= 400 the block is
\* left again through raise_for_status()
StreamHead(r, outcome) ==
    /\ reqs[r].pc = "opening"
    /\ IF outcome.kind # "response"
       THEN reqs' = [reqs EXCEPT ![r].pc = "done", ![r].reply = outcome,
                                 ![r].logged = <<"Streaming error: ", RequestException(outcome)>>]
       ELSE IF StreamHeadIsError(outcome.status)
       THEN reqs' = [reqs EXCEPT ![r].pc = "done", ![r].reply = outcome,
                                 ![r].conn = "released",
                                 ![r].logged = <<"Streaming error: ", "HTTPStatusError">>]
       ELSE reqs' = [reqs EXCEPT ![r].pc = "relaying", ![r].reply = outcome,
                                 ![r].conn = "open"]
    /\ UNCHANGED <<settings, phase, gonka_client, available_models, wall, perf, issued, boot,
                   pools, served, signed>>

\* async for chunk in response.aiter_bytes(): the next chunk arrives and is
\* yielded, through generate(), to the response, which awaits its send
StreamChunk(r, chunk) ==
    /\ reqs[r].pc = "relaying"
    /\ Len(reqs[r].emitted) < MaxChunks
    /\ reqs' = [reqs EXCEPT ![r].pc = "sending", ![r].emitted = Append(@, chunk)]
    /\ UNCHANGED <<settings, phase, gonka_client, available_models, wall, perf, issued, boot,
                   pools, served, signed>>

\* a mutant of the relay that passes a chunk on only when its predecessor
\* was the same
Yielded(emitted, relayed) ==
    IF Len(relayed) > 0 /\ emitted[Len(emitted)] # relayed[Len(relayed)]
    THEN relayed
    ELSE Append(relayed, emitted[Len(emitted)])

\* yield chunk, in request_stream and again in generate(): the chunk just
\* read is passed on as it is
Yield(emitted, relayed) == Append(relayed, emitted[Len(emitted)])

\* the send is over; both generators resume and wait for the next chunk
StreamSend(r) ==
    /\ reqs[r].pc = "sending"
    /\ reqs' = [reqs EXCEPT ![r].pc = "relaying",
                            ![r].relayed = Yield(reqs[r].emitted, reqs[r].relayed)]
    /\ UNCHANGED <<settings, phase, gonka_client, available_models, wall, perf, issued, boot,
                   pools, served, signed>>

\* the upstream closes the stream: aiter_bytes ends, the `async with` block
\* is left, both generators finish
StreamClose(r) ==
    /\ reqs[r].pc = "relaying"
    /\ reqs' = [reqs EXCEPT ![r].pc = "done", ![r].conn = "released"]
    /\ UNCHANGED <<settings, phase, gonka_client, available_models, wall, perf, issued, boot,
                   pools, served, signed>>

\* the transport fails while chunks are being read: the exception leaves
\* the `async with` block, is logged and raised again
StreamBreak(r) ==
    /\ reqs[r].pc = "relaying"
    /\ reqs' = [reqs EXCEPT ![r].pc = "done", ![r].conn = "released",
                            ![r].logged = <<"Streaming error: ", "ReadError">>]
    /\ UNCHANGED <<settings, phase, gonka_client, available_models, wall, perf, issued, boot,
                   pools, served, signed>>

\* `except Exception` catches neither asyncio.CancelledError nor
\* GeneratorExit: both are BaseException
CaughtAsException(exc) == exc \notin {"CancelledError", "GeneratorExit"}

\* what the handlers of request_stream and generate() log for an exception
\* on its way out (each logs and raises again)
StreamLogged(exc) == IF CaughtAsException(exc) THEN <<"Streaming error: ", exc>> ELSE <<>>

\* the caller disconnects and the server cancels the task that streams the
\* response.  Waiting for the upstream (the head, a chunk), the task gets
\* CancelledError inside request_stream, which leaves the `async with`
\* block; waiting in a send, it leaves both generators suspended at their
\* yield, the upstream response still open.
ClientDisconnect(r) ==
    /\ reqs[r].pc \in {"started", "opening", "relaying", "sending"}
    /\ reqs' = [reqs EXCEPT
                  ![r].dropped = TRUE,
                  ![r].pc = IF reqs[r].pc = "sending" THEN "abandoned" ELSE "done",
                  ![r].conn = IF reqs[r].pc = "relaying" THEN "released" ELSE @,
                  ![r].logged = IF reqs[r].pc \in {"opening", "relaying"}
                                THEN StreamLogged("CancelledError") ELSE @]
    /\ UNCHANGED <<settings, phase, gonka_client, available_models, wall, perf, issued, boot,
                   pools, served, signed>>

\* a mutant of the finalisation in which the response is never closed
StreamAbandon(r) ==
    /\ reqs[r].pc = "abandoned"
    /\ reqs' = [reqs EXCEPT ![r].pc = "done"]
    /\ UNCHANGED <<settings, phase, gonka_client, available_models, wall, perf, issued, boot,
                   pools, served, signed>>

\* the suspended generators are finalised (aclose): GeneratorExit is raised
\* at `yield chunk` and leaves the `async with` block
StreamFinalize(r) ==
    /\ reqs[r].pc = "abandoned"
    /\ reqs' = [reqs EXCEPT ![r].pc = "done", ![r].conn = "released",
                            ![r].logged = StreamLogged("GeneratorExit")]
    /\ UNCHANGED <<settings, phase, gonka_client, available_models, wall, perf, issued, boot,
                   pools, served, signed>>

(***************************************************************************)
(* Spec: MaxReq requests in flight together, over a few inputs of each     *)
(* kind, a stream ending without chunks.  SpecOne: one request, over every *)
(* input, chunks and disconnects included.                                 *)
(***************************************************************************)
FewBodies == {Dumps(EmptyObject), Dumps(Object("stream", Scalar("bool", "true")))}

FewBuffered == {Outcome("response", 200, <<"{", "}">>),
                Outcome("response", 500, <<"<html>">>),
                Outcome("transport", 0, <<>>)}

FewHeads == {Outcome("response", 200, <<>>), Outcome("response", 500, <<>>)}

FewHeaders == {<<>>, <<"s", "k">>}

Next ==
    \/ Tick(MaxPerf)
    \/ LifespanStartup
    \/ \E outcome \in FewBuffered : LifespanModels(outcome)
    \/ LifespanShutdown
    \/ \E r \in Req, header \in FewHeaders : ChatReceive(r, header)
    \/ \E r \in Req, raw \in FewBodies : ChatBody(r, raw)
    \/ \E r \in Req, outcome \in FewBuffered : ChatReply(r, outcome)
    \/ \E r \in Req : StreamOpen(r)
    \/ \E r \in Req, outcome \in FewHeads : StreamHead(r, outcome)
    \/ \E r \in Req : StreamClose(r)
    \/ \E r \in Req : StreamBreak(r)

Spec == Init /\ [][Next]_vars

NextOne ==
    \/ Tick(MaxPerf)
    \/ LifespanStartup
    \/ \E outcome \in ModelsOutcomes : LifespanModels(outcome)
    \/ LifespanShutdown
    \/ \E header \in Headers : ChatReceive(1, header)
    \/ \E raw \in RawBodies : ChatBody(1, raw)
    \/ \E outcome \in BufferedOutcomes : ChatReply(1, outcome)
    \/ StreamOpen(1)
    \/ \E outcome \in StreamOutcomes : StreamHead(1, outcome)
    \/ \E chunk \in Chunks : StreamChunk(1, chunk)
    \/ StreamSend(1)
    \/ StreamClose(1)
    \/ StreamBreak(1)
    \/ ClientDisconnect(1)
    \/ StreamFinalize(1)

SpecOne == Init /\ [][NextOne]_vars

\* SpecOne on a running event loop: generators nobody holds any more are
\* finalised (the loop schedules their aclose())
SpecOneFair == Init /\ [][NextOne]_vars /\ WF_vars(StreamFinalize(1))

(***************************************************************************)
(* ClockSpec: the client's clock alone, under wall-clock adjustments.      *)
(***************************************************************************)
ClockNext ==
    \/ Tick(MaxClockPerf)
    \/ \E w \in 0..MaxWall : WallAdjust(w)
    \/ LifespanStartup
    \/ \E outcome \in FewBuffered : LifespanModels(outcome)
    \/ ClockRead

ClockSpec == Init /\ [][ClockNext]_vars

(***************************************************************************)
(* ServeSpec: startup over every answer to the models fetch, then the      *)
(* read-only handlers next to chat requests.                               *)
(***************************************************************************)
ServeNext ==
    \/ LifespanStartup
    \/ \E outcome \in ModelsOutcomes : LifespanModels(outcome)
    \/ LifespanShutdown
    \/ GetModelsNoAuth
    \/ \E header \in FewHeaders : ListModels(header)
    \/ \E r \in Req, header \in FewHeaders : ChatReceive(r, header)
    \/ \E r \in Req, raw \in FewBodies : ChatBody(r, raw)
    \/ \E r \in Req, outcome \in FewBuffered : ChatReply(r, outcome)

ServeSpec == Init /\ [][ServeNext]_vars

(***************************************************************************)
(* AuthSpec: verify_api_key over more secrets and Authorization headers,   *)
(* the upstream configuration complete.                                    *)
(***************************************************************************)
AuthApiKeys == {<<>>, <<"s", "k">>, BearerPrefix \o <<"s", "k">>}

AuthSettingsSet == [gonka_private_key : {KeyPrefixed},
                    gonka_address : {<<"g", "1">>},
                    gonka_endpoint : {<<"h", "/">>},
                    gonka_provider_address : {<<"p", "1">>},
                    api_key : AuthApiKeys]

AuthHeaders == {<<>>,
                <<"s", "k">>,
                <<"n", "o">>,
                BearerPrefix \o <<"s", "k">>,
                BearerPrefix \o <<"n", "o">>,
                <<"b", "e", "a", "r", "e", "r", " ", "s", "k">>,
                <<"B", "E", "A", "R", "E", "R", " ", "n", "o">>,
                <<"B", "e", "a", "r", "e", "r">>,
                BearerPrefix,
                <<"B", "a", "s", "i", "c", " ", "s", "k">>,
                BearerPrefix \o BearerPrefix \o <<"s", "k">>}

AuthInit == Imported(AuthSettingsSet)

AuthNext ==
    \/ LifespanStartup
    \/ \E outcome \in FewBuffered : LifespanModels(outcome)
    \/ \E r \in Req, header \in AuthHeaders : ChatReceive(r, header)

AuthSpec == AuthInit /\ [][AuthNext]_vars

(***************************************************************************)
(* StampSpec: the signed message of the models fetch and of one chat       *)
(* request, prepared at different readings of the clock.                   *)
(***************************************************************************)
StampNext ==
    \/ Tick(MaxPerf)
    \/ LifespanStartup
    \/ \E outcome \in FewBuffered : LifespanModels(outcome)
    \/ \E header \in FewHeaders : ChatReceive(1, header)
    \/ \E raw \in FewBodies : ChatBody(1, raw)
    \/ StreamOpen(1)

StampSpec == Init /\ [][StampNext]_vars

(***************************************************************************)
(* SigSpec: _sign_payload over every pair of scalars the signer can return.*)
(***************************************************************************)
SigNext ==
    \/ LifespanStartup
    \/ \E outcome \in FewBuffered : LifespanModels(outcome)
    \/ \E r \in 1..(order - 1), s \in 1..(order - 1) : SignPayload(r, s)

SigSpec == Init /\ [][SigNext]_vars

(***************************************************************************)
(* Properties.                                                             *)
(***************************************************************************)
\* the callers of the upstream: 0 is the startup models fetch
Callers == {0} \cup Req

CallOf(i) == IF i = 0 THEN boot.call ELSE reqs[i].call

Authorized(r) == verify_api_key(settings.api_key, reqs[r].header).status = 200

\* the body of request r has been read and decoded
BodyOf(r) == Loads(reqs[r].raw).value

BodyRead(r) == reqs[r].pc \notin {"idle", "body"} /\ reqs[r].result.kind \notin {"auth", "config"}

\* request r was answered on the streamed path
Streamed(r) == reqs[r].head.status # 0

\* the stream of request r failed before any chunk was relayed
FailedBeforeChunks(r) ==
    /\ Streamed(r)
    /\ reqs[r].pc = "done"
    /\ reqs[r].relayed = <<>>
    /\ reqs[r].logged # <<>>

\* C1: request_stream yields no chunk unless the head of the upstream
\* response has a 2xx status; on every other status it raises the upstream
\* HTTP error after yielding nothing.
C1_NoChunkUnlessSuccess ==
    \A r \in Req :
        (reqs[r].call.sent /\ reqs[r].call.streamed /\ reqs[r].reply.kind = "response"
         /\ ~IsSuccess(reqs[r].reply.status))
        => /\ reqs[r].relayed = <<>>
           /\ reqs[r].pc = "done"
           /\ reqs[r].logged = <<"Streaming error: ", "HTTPStatusError">>

\* C2: on the streamed path the response to the caller begins only after the
\* upstream has confirmed a 2xx status, so a failure before any chunk was
\* relayed reaches the caller as an error result.
C2_HeadAfterUpstreamSuccess ==
    \A r \in Req :
        /\ Streamed(r) => (reqs[r].reply.kind = "response" /\ IsSuccess(reqs[r].reply.status))
        /\ FailedBeforeChunks(r) => reqs[r].result.status >= 400

\* what _prepare_request was run for: an exchange that went out, or a
\* request that ended in the signer's exception
PrepareFailed(r) ==
    \/ reqs[r].result.detail = <<"Internal server error: ", "ValueError">>
    \/ reqs[r].logged = <<"Streaming error: ", "ValueError">>

Prepared == {i \in Callers : CallOf(i).sent}
            \cup {r \in Req : PrepareFailed(r)}
            \cup {i \in {0} : boot.pc = "done" /\ gonka_client.made
                              /\ ~KeyParses(gonka_client.private_key)}

\* C3: every upstream call, whatever else is in flight, reads the clock once,
\* goes out carrying a signature already computed, and carries in X-Timestamp
\* the decimal rendering of the timestamp inside the signed message.
C3_SignedTimestampIsSent ==
    /\ Len(issued) = Cardinality(Prepared)
    /\ \A i \in Callers :
          CallOf(i).sent =>
            /\ CallOf(i).reads = 1
            /\ CallOf(i).headers.XTimestamp = Str(CallOf(i).timestamp_ns)
            /\ CallOf(i).headers.Authorization.ok
            /\ CallOf(i).headers.Authorization.msg =
                 CallOf(i).content \o CallOf(i).headers.XTimestamp
                 \o gonka_client.provider_address
            /\ \E k \in 1..Len(issued) : issued[k] = CallOf(i).timestamp_ns

\* two requests in flight together, a buffered and a streamed one, signed at
\* different times
C3_Witness ==
    /\ reqs[1].pc = "upstream" /\ reqs[2].pc = "opening"
    /\ boot.call.sent
    /\ reqs[1].call.timestamp_ns # reqs[2].call.timestamp_ns
    /\ Len(reqs[2].call.headers.XTimestamp) = 2

\* C4: the values _hybrid_timestamp_ns returns never decrease, whatever is
\* done to the wall clock after construction: each lies between the anchor
\* wall_base and wall_base + (perf - perf_base).
C4_HybridNonDecreasing ==
    /\ \A i, j \in 1..Len(issued) : i < j => issued[i] <= issued[j]
    /\ gonka_client.made =>
         \A i \in 1..Len(issued) :
            /\ gonka_client.wall_base <= issued[i]
            /\ issued[i] <= gonka_client.wall_base + (perf - gonka_client.perf_base)

\* the clock was read at least three times, with the counter advancing, and
\* the wall clock now stands behind the anchor
C4_Witness ==
    /\ gonka_client.made
    /\ Len(issued) >= 3
    /\ issued[1] < issued[Len(issued)]
    /\ wall < gonka_client.wall_base

\* C5: any two outbound requests prepared by the client carry different
\* timestamps.
C5_DistinctTimestamps ==
    \A i, j \in Callers :
        (i # j /\ CallOf(i).sent /\ CallOf(j).sent)
        => CallOf(i).timestamp_ns # CallOf(j).timestamp_ns

\* request r went the buffered way and its exchange is over
BufferedDone(r) ==
    reqs[r].pc = "done" /\ reqs[r].call.sent /\ ~reqs[r].call.streamed

Completed2xx(r) == reqs[r].reply.kind = "response" /\ IsSuccess(reqs[r].reply.status)

GotUpstreamJson(r) ==
    /\ reqs[r].result.status = 200
    /\ Loads(reqs[r].reply.body).ok
    /\ reqs[r].result.body = Loads(reqs[r].reply.body).value

Got500(r) ==
    /\ reqs[r].result.status = 500
    /\ reqs[r].result.body = NoValue
    /\ Len(reqs[r].result.detail) = 2
    /\ reqs[r].result.detail[2] # ""

\* C6 as claimed: on the buffered path the caller receives the upstream's
\* JSON body exactly when the exchange completed with a 2xx status, and a 500
\* with a description otherwise.
C6_JsonIffSuccessStatus ==
    \A r \in Req :
        BufferedDone(r) =>
            /\ GotUpstreamJson(r) <=> Completed2xx(r)
            /\ ~Completed2xx(r) => Got500(r)

\* C6 as amended: the caller receives the upstream's JSON body exactly when
\* the exchange completed with a 2xx status and a body that decodes as JSON;
\* in every other case (any other status, a transport failure, a timeout, a
\* 2xx reply whose body is not JSON) the caller receives a 500 with a
\* description, never a success.
C6_JsonIffSuccessAndDecodes ==
    \A r \in Req :
        BufferedDone(r) =>
            /\ GotUpstreamJson(r)
                 <=> (Completed2xx(r) /\ Loads(reqs[r].reply.body).ok)
            /\ ~(Completed2xx(r) /\ Loads(reqs[r].reply.body).ok) => Got500(r)
            /\ reqs[r].result.status \in {200, 500}

\* a 3xx reply with a JSON body was reported as a 500
C6_Witness ==
    /\ BufferedDone(1)
    /\ reqs[1].reply = Outcome("response", 302, <<"{", "}">>)
    /\ Got500(1)

\* C7: a parsed body is forwarded streamed exactly when its stream member is
\* the boolean true.
C7_StreamedIffTrue ==
    \A r \in Req :
        (BodyRead(r) /\ Loads(reqs[r].raw).ok /\ BodyOf(r).t = "obj")
        => (Streamed(r) <=> Get(BodyOf(r), "stream", PyFalse) = Scalar("bool", "true"))

\* C8: no client is ever constructed around a private key that does not
\* parse, so no request fails on parsing the key.
C8_NoClientWithMalformedKey ==
    /\ gonka_client.made => KeyParses(gonka_client.private_key)
    /\ \A r \in Req : ~PrepareFailed(r)

\* C9: an authorized request under a complete configuration ends in 400
\* exactly when its body is not JSON; every body that is JSON, of whatever
\* type, is forwarded.
C9_400IffNotJson ==
    \A r \in Req :
        BodyRead(r) =>
            /\ reqs[r].result.status = 400 <=> ~Loads(reqs[r].raw).ok
            /\ Loads(reqs[r].raw).ok =>
                 (Streamed(r) \/ reqs[r].call.sent \/ PrepareFailed(r))

\* the setting names the 500 of get_gonka_client lists after "Missing: "
NamedMissing(detail) ==
    {detail[i] : i \in 2..(IndexOf(detail, ". ") - 1)} \cap SettingNames

Unset(s) ==
    {n \in SettingNames :
        \/ n = "GONKA_PRIVATE_KEY" /\ s.gonka_private_key = <<>>
        \/ n = "GONKA_ADDRESS" /\ s.gonka_address = <<>>
        \/ n = "GONKA_ENDPOINT" /\ s.gonka_endpoint = <<>>
        \/ n = "GONKA_PROVIDER_ADDRESS" /\ s.gonka_provider_address = <<>>}

CarriesModelList(outcome) ==
    /\ outcome.kind = "response" /\ IsSuccess(outcome.status)
    /\ Loads(outcome.body).ok /\ Loads(outcome.body).value.t = "obj"
    /\ Get(Loads(outcome.body).value, "models", Array("")).t = "arr"

\* the signer failed on the startup fetch: a client exists, its key does not
\* parse, and startup is over
SigningFailedAtBoot ==
    boot.pc = "done" /\ gonka_client.made /\ ~KeyParses(gonka_client.private_key)

\* C11: startup always completes.  Whatever the startup models fetch ends in
\* (a non-2xx status, a transport failure, a timeout, a signing failure, a
\* malformed response), the cache is set to the empty list and the service
\* starts serving, and GET /api/models then answers 200 with the cache,
\* {"models": []}.
C11_StartupFailureEmptyCache ==
    /\ [][\A outcome \in ModelsOutcomes :
            (LifespanModels(outcome) /\ ~CarriesModelList(outcome))
            => (available_models' = Array("") /\ phase' = "serving")]_vars
    /\ [](SigningFailedAtBoot => (available_models = Array("") /\ phase # "boot"))
    /\ [](served.path = "/api/models"
            => served.result = Result(200, "json", Object("models", available_models), <<>>))

\* C18: the cache is assigned during startup alone, before any request is
\* served: no step taken while serving, of any handler and with any outcome,
\* changes it, nothing is served or received before startup is over, and
\* GET /api/models reports the value every other reader sees.
C18_CacheWrittenAtStartupOnly ==
    /\ [][phase # "boot" => available_models' = available_models]_vars
    /\ [](phase = "boot" => (served = NoServed /\ \A r \in Req : reqs[r].pc = "idle"))
    /\ [](served.path = "/api/models"
            => served.result.body = Object("models", available_models))

\* a non-empty cache was loaded at startup, both read-only handlers have
\* answered, and two chat requests have gone different ways
C18_Witness ==
    /\ phase = "serving"
    /\ available_models = Array(ModelObject)
    /\ served = Served("/v1/models",
                       Result(200, "json", Object("data", ModelList(<<"m">>)), <<>>))
    /\ reqs[1].pc = "done" /\ reqs[1].result.status = 500
    /\ reqs[2].pc = "upstream"

\* the upstream closed the stream of request r in the normal way: the
\* `async with` block was left with no exception and no disconnect
ClosedNormally(r) ==
    /\ reqs[r].pc = "done"
    /\ reqs[r].conn = "released"
    /\ reqs[r].logged = <<>>
    /\ ~reqs[r].dropped

\* C12: on the streamed path the chunks sent to the caller are at every
\* moment the chunks read from the upstream, in order and unchanged, less at
\* most the one being sent; once the upstream has closed the stream normally
\* the caller has received exactly the chunks the upstream emitted and the
\* outbound stream has ended.
C12_RelayedIsEmitted ==
    \A r \in Req :
        /\ Len(reqs[r].relayed) <= Len(reqs[r].emitted)
        /\ reqs[r].relayed = SubSeq(reqs[r].emitted, 1, Len(reqs[r].relayed))
        /\ Len(reqs[r].emitted) - Len(reqs[r].relayed) <= 1
        /\ reqs[r].pc = "relaying" => reqs[r].relayed = reqs[r].emitted
        /\ ClosedNormally(r) => reqs[r].relayed = reqs[r].emitted

\* a 2xx stream of two different chunks was relayed and closed normally
C12_Witness ==
    /\ ClosedNormally(1)
    /\ IsSuccess(reqs[1].reply.status)
    /\ reqs[1].emitted = <<"c2", "c1">>
    /\ reqs[1].relayed = <<"c2", "c1">>

\* C13: a signed exchange with the upstream's /chat/completions exists only
\* for a request that passed verify_api_key; a request that did not is over
\* at once with the result of the check (401, or 500 when the server has no
\* secret), before the configuration is looked up, the body read, anything
\* signed or sent.
C13_NoExchangeUnlessAuthorized ==
    \A r \in Req :
        /\ reqs[r].call.sent =>
              (Authorized(r) /\ reqs[r].call.url = gonka_client.endpoint \o ChatPath)
        /\ (reqs[r].pc # "idle" /\ ~Authorized(r)) =>
              /\ reqs[r].pc = "done"
              /\ reqs[r].result.kind = "auth"
              /\ reqs[r].result.status = IF settings.api_key = <<>> THEN 500 ELSE 401
              /\ reqs[r].raw = <<>>
              /\ ~reqs[r].call.sent /\ ~Streamed(r)
              /\ Len(issued) <= 1

\* a request with a wrong key was refused with 401 although the upstream
\* configuration is incomplete as well
C13_Witness ==
    /\ reqs[1].pc = "done"
    /\ reqs[1].header = <<"B", "e", "a", "r", "e", "r", " ", "n", "o">>
    /\ reqs[1].result = Result(401, "auth", NoValue, <<"Invalid API key">>)
    /\ Unset(settings) # {}

\* the decisions of verify_api_key seen so far: (secret, header, result) of
\* every chat request received
Decisions ==
    {<<settings.api_key, reqs[r].header,
       IF reqs[r].result.kind = "auth" THEN reqs[r].result
       ELSE Result(200, "auth", NoValue, <<"">>)>> : r \in {q \in Req : reqs[q].pc # "idle"}}

Refused(status, detail) == Result(status, "auth", NoValue, <<detail>>)

\* C14 as claimed: no secret gives 500; else a missing or empty header gives
\* 401 with the missing-key message; else the caller is authorized exactly
\* when the header is the secret, bare or after "Bearer ", and gets 401
\* "Invalid API key" for any other header.
C14_BareOrBearerPrefix ==
    \A d \in Decisions :
        d[3] = IF d[1] = <<>> THEN Refused(500, "API key not configured on server")
               ELSE IF d[2] = <<>> THEN Refused(401, "Missing API key")
               ELSE IF d[2] = d[1] \/ d[2] = BearerPrefix \o d[1]
                    THEN Result(200, "auth", NoValue, <<"">>)
               ELSE Refused(401, "Invalid API key")

\* the header is "<scheme> <credentials>": one word that spells bearer in
\* any mix of cases, a space, and something after it
HasBearerScheme(header) ==
    /\ Len(header) > 7
    /\ header[7] = " "
    /\ \A i \in 1..6 : header[i] # " "
    /\ \A i \in 1..6 : header[i] \in {<<"b", "e", "a", "r", "e", "r">>[i],
                                      <<"B", "E", "A", "R", "E", "R">>[i]}

\* C14 as amended: no secret gives 500; else the token is what follows the
\* scheme when the header is a bearer scheme (in any letter case), a space
\* and more, nothing when the header is "Bearer " alone, and the header
\* itself otherwise; an empty token gives 401 with the missing-key message,
\* a token equal to the secret authorizes, any other token gives 401
\* "Invalid API key".
C14_TokenEqualsSecret ==
    \A d \in Decisions :
        LET token == IF HasBearerScheme(d[2]) THEN SubSeq(d[2], 8, Len(d[2]))
                     ELSE IF d[2] = BearerPrefix THEN <<>>
                     ELSE d[2]
        IN  d[3] = IF d[1] = <<>> THEN Refused(500, "API key not configured on server")
                   ELSE IF token = <<>> THEN Refused(401, "Missing API key")
                   ELSE IF token = d[1] THEN Result(200, "auth", NoValue, <<"">>)
                   ELSE Refused(401, "Invalid API key")

\* one request was authorized through a lower-case scheme and another, with
\* the secret after a different scheme, was refused
C14_Witness ==
    /\ settings.api_key = <<"s", "k">>
    /\ reqs[1].header = <<"b", "e", "a", "r", "e", "r", " ", "s", "k">>
    /\ reqs[1].pc = "body"
    /\ reqs[2].header = <<"B", "a", "s", "i", "c", " ", "s", "k">>
    /\ reqs[2].result = Refused(401, "Invalid API key")

\* C15: once the caller of a streamed response has disconnected, no further
\* chunk is read from the upstream or sent on, and the upstream response does
\* not stay open: the `async with` block of request_stream is left, at the
\* latest when the suspended generators are finalised.
C15_DropStopsPullingAndReleases ==
    /\ [][\A r \in Req :
            reqs[r].dropped => /\ reqs'[r].emitted = reqs[r].emitted
                               /\ reqs'[r].relayed = reqs[r].relayed
                               /\ reqs'[r].dropped]_vars
    /\ \A r \in Req : reqs[r].dropped ~> (reqs[r].conn # "open" /\ reqs[r].pc = "done")

\* the caller left while the second chunk was being sent to it, and the
\* upstream response has been released since
C15_Witness ==
    /\ reqs[1].dropped
    /\ reqs[1].pc = "done"
    /\ reqs[1].conn = "released"
    /\ Len(reqs[1].emitted) = 2
    /\ Len(reqs[1].relayed) = 1

\* C16: with the payload and the provider address fixed, signing at two
\* different timestamps signs two different messages (payload, then the
\* decimal timestamp, then the address) and gives two different signatures:
\* for every exchange sent and every other timestamp, and for every two
\* exchanges with the same content.
C16_TimestampChangesSignature ==
    /\ \A i \in Callers :
          CallOf(i).sent =>
            \A T \in 0..MaxStamp :
                T # CallOf(i).timestamp_ns =>
                  LET other == sign_payload(gonka_client, CallOf(i).content, T,
                                            gonka_client.provider_address)
                  IN  /\ other.ok
                      /\ other.msg # CallOf(i).headers.Authorization.msg
                      /\ other # CallOf(i).headers.Authorization
    /\ \A i, j \in Callers :
          (CallOf(i).sent /\ CallOf(j).sent /\ CallOf(i).content = CallOf(j).content
           /\ CallOf(i).timestamp_ns # CallOf(j).timestamp_ns)
          => CallOf(i).headers.Authorization # CallOf(j).headers.Authorization

\* the models fetch and a chat request with the same payload, {}, went out
\* at consecutive timestamps
C16_Witness ==
    /\ boot.call.sent /\ reqs[1].call.sent
    /\ boot.call.content = reqs[1].call.content
    /\ boot.call.timestamp_ns = WallAtBoot
    /\ reqs[1].call.timestamp_ns = WallAtBoot + 1
    /\ boot.call.headers.Authorization # reqs[1].call.headers.Authorization

\* C17: every signature _sign_payload emits is in low-S form.  For every
\* pair (r, s) of scalars in 1..order-1 the signer returns, the emitted
\* bytes are r unchanged followed by s when s <= order/2 and by order - s
\* otherwise, so the emitted s is at most order/2.
C17_LowS ==
    signed # NoSignature =>
        LET r_out == SubSeq(signed.out, 1, ScalarLen)
            s_out == FromBytes(SubSeq(signed.out, ScalarLen + 1, Len(signed.out)))
        IN  /\ Len(signed.out) = 2 * ScalarLen
            /\ r_out = SubSeq(signed.sig, 1, ScalarLen)
            /\ FromBytes(r_out) = signed.r
            /\ s_out = IF signed.s <= order \div 2 THEN signed.s ELSE order - signed.s
            /\ 1 <= s_out /\ s_out <= order \div 2

\* the signer returned the largest scalars and s was replaced by order - s
C17_Witness ==
    /\ signed.r = order - 1
    /\ signed.s = order - 1
    /\ FromBytes(SubSeq(signed.out, ScalarLen + 1, Len(signed.out))) = 1
    /\ signed.out # signed.sig

\* C19: at most one connection pool is ever created, it is the one the
\* global client holds, it stays open as long as the process has not shut
\* down, and shutdown closes it exactly once.
C19_OnePoolClosedOnceAtShutdown ==
    /\ Len(pools) <= 1
    /\ gonka_client.made <=> Len(pools) = 1
    /\ gonka_client.made =>
          /\ gonka_client.pool = 1
          /\ gonka_client.open <=> phase # "stopped"
    /\ \A i \in 1..Len(pools) : pools[i] = IF phase = "stopped" THEN 1 ELSE 0

\* the process has shut down after startup and two chat requests used the
\* one client, and its pool was closed once
C19_Witness ==
    /\ phase = "stopped"
    /\ pools = <<1>>
    /\ boot.call.sent
    /\ reqs[1].call.sent /\ reqs[2].call.sent

\* the payload an exchange was prepared for: {} for the models fetch, the
\* parsed body for a chat request
PayloadOf(i) == IF i = 0 THEN EmptyObject ELSE BodyOf(i)

\* C20: the content of every exchange sent, buffered or streamed, is the one
\* serialisation of its payload made in _prepare_request, and that same
\* byte string is what the signed message begins with, whatever other
\* requests are prepared in between.
C20_ContentIsSignedPayload ==
    \A i \in Callers :
        CallOf(i).sent =>
            /\ CallOf(i).content = Dumps(PayloadOf(i))
            /\ StartsWith(CallOf(i).headers.Authorization.msg, CallOf(i).content)
            /\ Drop(CallOf(i).headers.Authorization.msg, Len(CallOf(i).content))
                 = Str(CallOf(i).timestamp_ns) \o gonka_client.provider_address

\* a streamed and a buffered exchange are in flight together, the streamed
\* one with a payload that json.dumps writes with ": "
C20_Witness ==
    /\ reqs[1].pc = "opening" /\ reqs[2].pc = "upstream"
    /\ reqs[1].call.streamed /\ ~reqs[2].call.streamed
    /\ reqs[1].call.content = <<"{", "\"", "stream", "\"", ": ", "true", "}">>
    /\ reqs[2].call.content = <<"{", "}">>

====
